---- MODULE Spec2Model ----
(***************************************************************************)
(* AdminTopUp: the in-memory storage (MemStorage), the zod schemas and the *)
(* express routes of the currency distribution admin panel.                *)
(*                                                                         *)
(* Each handler and each storage method is one step, followed by the step  *)
(* that hands its response to the caller.  The constructor of MemStorage   *)
(* returns before initializeDefaultAdmin has stored the default            *)
(* administrator (it awaits bcrypt.hash first), so the seeding is a step   *)
(* of its own that requests can precede.                                   *)
(***************************************************************************)
EXTENDS Integers, Sequences, FiniteSets, TLC

(***************************************************************************)
(* Bounds of the model.                                                    *)
(***************************************************************************)
MaxAdmins == 2       \* administrator records the store may hold
MaxTx == 2           \* transaction records the store may hold
MaxTime == 1         \* Date.now() ranges over 0..MaxTime

UUIDs == 1..(MaxAdmins + MaxTx)
\* bcrypt.hash salts its output; salts are only compared, so one name is enough
Salts == {"salt"}
Sessions == {"s1", "s2"}
Usernames == {"admin", "bob"}
Passwords == {"admin123", "pw"}

(***************************************************************************)
(* JSON values of request bodies and query strings.  A number is           *)
(* int + half/2, so that non-integers are representable.                   *)
(***************************************************************************)
Undef == [t |-> "undefined", int |-> 0, half |-> FALSE, s |-> ""]
Num(i, h) == [t |-> "number", int |-> i, half |-> h, s |-> ""]
Str(x) == [t |-> "string", int |-> 0, half |-> FALSE, s |-> x]

IsPositive(v) == v.int > 0 \/ (v.int = 0 /\ v.half)
IsNonNegative(v) == v.int >= 0

(***************************************************************************)
(* bcrypt                                                                  *)
(***************************************************************************)
BcryptRounds == 10
BcryptHash(pw, salt) == [rounds |-> BcryptRounds, salt |-> salt, digest |-> <<salt, pw>>]
BcryptCompare(pw, hash) == hash.digest = <<hash.salt, pw>>

(***************************************************************************)
(* State                                                                   *)
(***************************************************************************)
VARIABLES
    admins,            \* MemStorage.admins: id -> Admin
    adminsByUsername,  \* MemStorage.adminsByUsername: username -> Admin
    transactions,      \* MemStorage.transactions, in insertion order
    seeded,            \* initializeDefaultAdmin has finished
    session,           \* express-session store: cookie -> SessionData
    now,               \* Date.now()
    last               \* the operation that just ran and its response, until handed over

vars == <<admins, adminsByUsername, transactions, seeded, session, now, last>>

NoAdminId == 0
NoUsername == ""
EmptySession == [adminId |-> NoAdminId, adminUsername |-> NoUsername]

DefaultBalance == "786403297865"

TxIds(txs) == {txs[i].id : i \in 1..Len(txs)}
UsedUUIDs == DOMAIN admins \cup TxIds(transactions)
\* an id generator that only avoids the ids of administrators
randomUUIDRepeats ==
    IF UUIDs \ DOMAIN admins = {} THEN {}
    ELSE {CHOOSE i \in UUIDs \ DOMAIN admins : \A j \in UUIDs \ DOMAIN admins : i <= j}

\* randomUUID(): a value distinct from every one handed out before.  The code
\* only compares ids for equality, so the fresh value is named canonically.
randomUUID ==
    IF UUIDs \ UsedUUIDs = {} THEN {}
    ELSE {CHOOSE i \in UUIDs \ UsedUUIDs : \A j \in UUIDs \ UsedUUIDs : i <= j}

(***************************************************************************)
(* MemStorage                                                              *)
(***************************************************************************)
MapSet(m, k, v) == [x \in DOMAIN m \cup {k} |-> IF x = k THEN v ELSE m[x]]
EmptyMap == [x \in {} |-> x]

\* Map.get as an option: <<>> for undefined
getAdmin(id) == IF id \in DOMAIN admins THEN <<admins[id]>> ELSE <<>>
getAdminByUsername(username) ==
    IF username \in DOMAIN adminsByUsername THEN <<adminsByUsername[username]>> ELSE <<>>

\* the lookup without the isActive test
credentialsAdminIgnoresActive(byUsername, username) ==
    IF username \notin DOMAIN byUsername THEN <<>> ELSE <<byUsername[username]>>

\* validateAdminCredentials up to bcrypt.compare: the admin the comparison runs
\* against, or <<>> when the lookup already decides the answer is null
credentialsAdmin(byUsername, username) ==
    IF username \notin DOMAIN byUsername THEN <<>>
    ELSE IF ~byUsername[username].isActive THEN <<>>
    ELSE <<byUsername[username]>>

\* validateAdminCredentials after bcrypt.compare resolved
credentialsCheck(adminOpt, password) ==
    IF adminOpt = <<>> THEN <<>>
    ELSE IF BcryptCompare(password, adminOpt[1].password) THEN adminOpt ELSE <<>>

validateAdminCredentials(byUsername, username, password) ==
    credentialsCheck(credentialsAdmin(byUsername, username), password)

newAdmin(id, username, password, salt) ==
    [id |-> id, username |-> username, password |-> BcryptHash(password, salt),
     isActive |-> TRUE, balance |-> DefaultBalance]

\* a record whose adminId is filled with the record's own id
newTransactionIdAsAdminId(data, adminId, adminUsername, id, createdAt) ==
    [userUID |-> data.userUID, ucAmount |-> data.ucAmount,
     coinsAmount |-> data.coinsAmount, adminId |-> id,
     adminUsername |-> adminUsername, id |-> id, status |-> "completed",
     createdAt |-> createdAt]

newTransaction(data, adminId, adminUsername, id, createdAt) ==
    [userUID |-> data.userUID, ucAmount |-> data.ucAmount,
     coinsAmount |-> data.coinsAmount, adminId |-> adminId,
     adminUsername |-> adminUsername, id |-> id, status |-> "completed",
     createdAt |-> createdAt]

\* the comparator with its operands swapped: a.createdAt - b.createdAt
RECURSIVE insertByCreatedAtAsc(_, _)
insertByCreatedAtAsc(sorted, x) ==
    IF sorted = <<>> THEN <<x>>
    ELSE IF Head(sorted).createdAt <= x.createdAt
         THEN <<Head(sorted)>> \o insertByCreatedAtAsc(Tail(sorted), x)
         ELSE <<x>> \o sorted

\* (a, b) => b.createdAt - a.createdAt, applied by the stable Array.prototype.sort
RECURSIVE insertByCreatedAtDesc(_, _)
insertByCreatedAtDesc(sorted, x) ==
    IF sorted = <<>> THEN <<x>>
    ELSE IF Head(sorted).createdAt >= x.createdAt
         THEN <<Head(sorted)>> \o insertByCreatedAtDesc(Tail(sorted), x)
         ELSE <<x>> \o sorted

RECURSIVE sortByCreatedAtDesc(_)
sortByCreatedAtDesc(txs) ==
    IF txs = <<>> THEN <<>>
    ELSE insertByCreatedAtDesc(sortByCreatedAtDesc(SubSeq(txs, 1, Len(txs) - 1)),
                               txs[Len(txs)])

Min(a, b) == IF a < b THEN a ELSE b
Max(a, b) == IF a > b THEN a ELSE b

\* a slice that takes the element at index end as well
sliceInclusiveEnd(arr, start, end) ==
    LET len == Len(arr)
        from == IF start < 0 THEN Max(len + start, 0) ELSE Min(start, len)
        to == IF end < 0 THEN Max(len + end + 1, 0) ELSE Min(end + 1, len)
    IN  SubSeq(arr, from + 1, to)

\* Array.prototype.slice(start, end)
slice(arr, start, end) ==
    LET len == Len(arr)
        from == IF start < 0 THEN Max(len + start, 0) ELSE Min(start, len)
        to == IF end < 0 THEN Max(len + end, 0) ELSE Min(end, len)
    IN  SubSeq(arr, from + 1, to)

DefaultLimit == 50

\* a listing that slices the values in insertion order, without sorting them
getTransactionsUnsorted(txs, limit, offset) == slice(txs, offset, offset + limit)

getTransactions(txs, limit, offset) ==
    slice(sortByCreatedAtDesc(txs), offset, offset + limit)

\* a listing by uid that forgets the filter
getTransactionsByUIDUnfiltered(txs, userUID) == sortByCreatedAtDesc(txs)

getTransactionsByUID(txs, userUID) ==
    sortByCreatedAtDesc(SelectSeq(txs, LAMBDA t : t.userUID = userUID))

getTransactionCount(txs) == Len(txs)

(***************************************************************************)
(* shared/schema.ts                                                        *)
(***************************************************************************)
\* loginSchema.parse succeeds
loginSchema(body) ==
    /\ body.username.t = "string" /\ body.username.s # ""
    /\ body.password.t = "string" /\ body.password.s # ""

userUIDIssues(v) ==
    IF v.t = "string" /\ v.s # "" THEN {} ELSE {"userUID"}

\* z.number().min(0).optional().default(0) on the field called name
amountIssues(name, v) ==
    IF v.t = "undefined" THEN {}
    ELSE IF v.t = "number" /\ IsNonNegative(v) THEN {}
    ELSE {name}

amountDefault(v) == IF v.t = "undefined" THEN Num(0, FALSE) ELSE v

\* a field of the wrong type aborts the object parse; a failed min() does not
typeAborted(body) ==
    \/ body.userUID.t # "string"
    \/ body.ucAmount.t \notin {"undefined", "number"}
    \/ body.coinsAmount.t \notin {"undefined", "number"}

\* the refinement written with >= in place of >
atLeastOneAmountNonNegative(data) ==
    IsNonNegative(data.ucAmount) \/ IsNonNegative(data.coinsAmount)

atLeastOneAmount(data) == IsPositive(data.ucAmount) \/ IsPositive(data.coinsAmount)

transactionData(body) ==
    [userUID |-> body.userUID.s,
     ucAmount |-> amountDefault(body.ucAmount),
     coinsAmount |-> amountDefault(body.coinsAmount)]

\* the schema without its .refine()
insertTransactionSchemaNoRefine(body) ==
    userUIDIssues(body.userUID)
        \cup amountIssues("ucAmount", body.ucAmount)
        \cup amountIssues("coinsAmount", body.coinsAmount)

\* the issues of the ZodError insertTransactionSchema.parse throws; {} when it
\* returns transactionData(body)
insertTransactionSchema(body) ==
    LET fields == userUIDIssues(body.userUID)
                    \cup amountIssues("ucAmount", body.ucAmount)
                    \cup amountIssues("coinsAmount", body.coinsAmount)
        refined == IF typeAborted(body) \/ atLeastOneAmount(transactionData(body))
                   THEN {} ELSE {"At least one currency amount must be greater than 0"}
    IN  fields \cup refined

\* parseInt(req.query.x as string): <<>> is NaN
parseInt(v) ==
    IF v.t # "number" THEN <<>>
    ELSE IF v.half /\ v.int < 0 THEN <<v.int + 1>> ELSE <<v.int>>

\* parseInt(q) || dflt
parseIntOr(v, dflt) ==
    IF parseInt(v) = <<>> \/ parseInt(v) = <<0>> THEN dflt ELSE parseInt(v)[1]

(***************************************************************************)
(* Responses.  last records which operation ran, for which session, with   *)
(* which request, and what it answered.  Optional parts of a body are      *)
(* sequences of length 0 or 1.                                             *)
(***************************************************************************)
NoReq == [kind |-> "none"]

Response(op, s, req, status, message) ==
    [op |-> op, sess |-> s, req |-> req, status |-> status, message |-> message,
     errors |-> {}, admin |-> <<>>, transaction |-> <<>>, transactions |-> <<>>,
     page |-> <<>>]

\* no response is waiting to be handed over
Idle == Response("idle", "", NoReq, 0, "")

adminView(a) == [id |-> a.id, username |-> a.username]
adminViewWithBalance(a) == [id |-> a.id, username |-> a.username, balance |-> a.balance]

\* requireAuth that asks whether anybody is logged in, not whether the caller is
requireAuthAnySession(s) == \E x \in Sessions : session[x].adminId # NoAdminId

\* requireAuth lets the request through
requireAuth(s) == session[s].adminId # NoAdminId

Unauthenticated(op, s, req) == Response(op, s, req, 401, "Authentication required")

(***************************************************************************)
(* Init: the state right after `new MemStorage()` and registerRoutes       *)
(***************************************************************************)
Init ==
    /\ admins = EmptyMap
    /\ adminsByUsername = EmptyMap
    /\ transactions = <<>>
    /\ seeded = FALSE
    /\ session = [s \in Sessions |-> EmptySession]
    /\ now = 0
    /\ last = Idle

(***************************************************************************)
(* MemStorage.initializeDefaultAdmin, resumed after bcrypt.hash            *)
(***************************************************************************)
\* a seeding that fills the username index and forgets the id index
initializeDefaultAdminUsernameOnly ==
    /\ last = Idle
    /\ ~seeded
    /\ \E id \in randomUUID, salt \in Salts :
         LET defaultAdmin == newAdmin(id, "admin", "admin123", salt)
         IN  adminsByUsername' = MapSet(adminsByUsername, defaultAdmin.username, defaultAdmin)
    /\ seeded' = TRUE
    /\ UNCHANGED <<admins, transactions, session, now, last>>

initializeDefaultAdmin ==
    /\ last = Idle
    /\ ~seeded
    /\ \E id \in randomUUID, salt \in Salts :
         LET defaultAdmin == newAdmin(id, "admin", "admin123", salt)
         IN  /\ admins' = MapSet(admins, defaultAdmin.id, defaultAdmin)
             /\ adminsByUsername' = MapSet(adminsByUsername, defaultAdmin.username, defaultAdmin)
    /\ seeded' = TRUE
    /\ UNCHANGED <<transactions, session, now, last>>

(***************************************************************************)
(* MemStorage.createAdmin                                                  *)
(***************************************************************************)
createAdminReq(username, password) ==
    [kind |-> "createAdmin", username |-> username, password |-> password]

createAdmin(username, password) ==
    /\ last = Idle
    /\ Cardinality(DOMAIN admins) + (IF seeded THEN 0 ELSE 1) < MaxAdmins
    /\ \E id \in randomUUID, salt \in Salts :
         LET admin == newAdmin(id, username, password, salt)
         IN  /\ admins' = MapSet(admins, id, admin)
             /\ adminsByUsername' = MapSet(adminsByUsername, admin.username, admin)
             /\ last' = [Response("createAdmin", "", createAdminReq(username, password),
                                  0, "")
                           EXCEPT !.admin = <<admin>>]
    /\ UNCHANGED <<transactions, seeded, session, now>>

(***************************************************************************)
(* POST /api/auth/login                                                    *)
(***************************************************************************)
loginReq(body) == [kind |-> "login", username |-> body.username, password |-> body.password]

InvalidCredentials(s, body) == Response("login", s, loginReq(body), 401, "Invalid credentials")

\* a response that tells an unknown username from a wrong password
loginResponseNamesCheck(s, body, adminOpt) ==
    IF adminOpt = <<>>
    THEN IF body.username.s \in DOMAIN adminsByUsername
         THEN Response("login", s, loginReq(body), 401, "Wrong password")
         ELSE Response("login", s, loginReq(body), 401, "Unknown user")
    ELSE [Response("login", s, loginReq(body), 200, "Login successful")
            EXCEPT !.admin = <<adminView(adminOpt[1])>>]

\* the response the handler gives once validateAdminCredentials returned adminOpt
loginResponse(s, body, adminOpt) ==
    IF adminOpt = <<>> THEN InvalidCredentials(s, body)
    ELSE [Response("login", s, loginReq(body), 200, "Login successful")
            EXCEPT !.admin = <<adminView(adminOpt[1])>>]

\* a login that binds the id but keeps a username the session already carried
loginSessionKeepsUsername(old, adminOpt) ==
    IF adminOpt = <<>> THEN old
    ELSE [adminId |-> adminOpt[1].id,
          adminUsername |-> IF old.adminUsername # NoUsername THEN old.adminUsername
                            ELSE adminOpt[1].username]

\* the session data the handler leaves once validateAdminCredentials returned adminOpt
loginSession(old, adminOpt) ==
    IF adminOpt = <<>> THEN old
    ELSE [adminId |-> adminOpt[1].id, adminUsername |-> adminOpt[1].username]

login(s, body) ==
    /\ last = Idle
    /\ IF ~loginSchema(body)
       THEN /\ last' = [Response("login", s, loginReq(body), 400, "Validation error")
                          EXCEPT !.errors = {"loginSchema"}]
            /\ UNCHANGED session
       ELSE LET adminOpt == validateAdminCredentials(adminsByUsername,
                                                     body.username.s, body.password.s)
            IN  /\ session' = [session EXCEPT ![s] = loginSession(session[s], adminOpt)]
                /\ last' = loginResponse(s, body, adminOpt)
    /\ UNCHANGED <<admins, adminsByUsername, transactions, seeded, now>>

(***************************************************************************)
(* POST /api/auth/logout                                                   *)
(***************************************************************************)
\* a logout that clears the username and leaves the id bound
destroyKeepsAdminId(s) == [session EXCEPT ![s].adminUsername = NoUsername]

\* req.session.destroy(): the cookie no longer resolves to any session data
destroy(s) == [session EXCEPT ![s] = EmptySession]

\* a logout that turns away a session nobody is logged in on
logoutRequiresAuth(s) ==
    /\ last = Idle
    /\ IF ~requireAuth(s)
       THEN /\ last' = Unauthenticated("logout", s, NoReq)
            /\ UNCHANGED session
       ELSE /\ session' = destroy(s)
            /\ last' = Response("logout", s, NoReq, 200, "Logout successful")
    /\ UNCHANGED <<admins, adminsByUsername, transactions, seeded, now>>

logout(s) ==
    /\ last = Idle
    /\ session' = destroy(s)
    /\ last' = Response("logout", s, NoReq, 200, "Logout successful")
    /\ UNCHANGED <<admins, adminsByUsername, transactions, seeded, now>>

(***************************************************************************)
(* GET /api/auth/me                                                        *)
(***************************************************************************)
meResponse(s) ==
    IF ~requireAuth(s) THEN Unauthenticated("me", s, NoReq)
    ELSE IF getAdmin(session[s].adminId) = <<>>
    THEN Response("me", s, NoReq, 404, "Admin not found")
    ELSE [Response("me", s, NoReq, 200, "")
            EXCEPT !.admin = <<adminViewWithBalance(getAdmin(session[s].adminId)[1])>>]

me(s) ==
    /\ last = Idle
    /\ last' = meResponse(s)
    /\ UNCHANGED <<admins, adminsByUsername, transactions, seeded, session, now>>

(***************************************************************************)
(* POST /api/transactions                                                  *)
(***************************************************************************)
distributeReq(body) ==
    [kind |-> "distribute", userUID |-> body.userUID, ucAmount |-> body.ucAmount,
     coinsAmount |-> body.coinsAmount]

\* a store keyed by userUID: a second distribution to a user replaces the first
createTransactionKeyedByUID(data, adminId, adminUsername, id) ==
    LET tx == newTransaction(data, adminId, adminUsername, id, now)
        same == {i \in 1..Len(transactions) : transactions[i].userUID = tx.userUID}
    IN  IF same = {} THEN Append(transactions, tx)
        ELSE [transactions EXCEPT ![CHOOSE i \in same : TRUE] = tx]

\* MemStorage.createTransaction
createTransaction(data, adminId, adminUsername, id) ==
    Append(transactions, newTransaction(data, adminId, adminUsername, id, now))

\* a distribution that also debits the acting administrator's balance
distributeDebitsBalance(s, body) ==
    /\ last = Idle
    /\ IF ~requireAuth(s)
       THEN /\ last' = Unauthenticated("distribute", s, distributeReq(body))
            /\ UNCHANGED <<transactions, admins>>
       ELSE IF insertTransactionSchema(body) # {}
       THEN /\ last' = [Response("distribute", s, distributeReq(body), 400, "Validation error")
                          EXCEPT !.errors = insertTransactionSchema(body)]
            /\ UNCHANGED <<transactions, admins>>
       ELSE /\ Len(transactions) < MaxTx
            /\ \E id \in randomUUID :
                 /\ transactions' = createTransaction(transactionData(body),
                                       session[s].adminId, session[s].adminUsername, id)
                 /\ last' = [Response("distribute", s, distributeReq(body), 200,
                                      "Distribution successful")
                               EXCEPT !.transaction = <<transactions'[Len(transactions')]>>]
            /\ admins' = [admins EXCEPT ![session[s].adminId].balance = "0"]
    /\ UNCHANGED <<adminsByUsername, seeded, session, now>>

distribute(s, body) ==
    /\ last = Idle
    /\ IF ~requireAuth(s)
       THEN /\ last' = Unauthenticated("distribute", s, distributeReq(body))
            /\ UNCHANGED transactions
       ELSE IF insertTransactionSchema(body) # {}
       THEN /\ last' = [Response("distribute", s, distributeReq(body), 400, "Validation error")
                          EXCEPT !.errors = insertTransactionSchema(body)]
            /\ UNCHANGED transactions
       ELSE /\ Len(transactions) < MaxTx
            /\ \E id \in randomUUID :
                 /\ transactions' = createTransaction(transactionData(body),
                                       session[s].adminId, session[s].adminUsername, id)
                 /\ last' = [Response("distribute", s, distributeReq(body), 200,
                                      "Distribution successful")
                               EXCEPT !.transaction = <<transactions'[Len(transactions')]>>]
    /\ UNCHANGED <<admins, adminsByUsername, seeded, session, now>>

(***************************************************************************)
(* GET /api/transactions                                                   *)
(***************************************************************************)
getPageReq(limitQ, offsetQ) == [kind |-> "getPage", limit |-> limitQ, offset |-> offsetQ]

getPageResponse(s, limitQ, offsetQ) ==
    IF ~requireAuth(s) THEN Unauthenticated("getPage", s, getPageReq(limitQ, offsetQ))
    ELSE LET limit == parseIntOr(limitQ, DefaultLimit)
             offset == parseIntOr(offsetQ, 0)
         IN  [Response("getPage", s, getPageReq(limitQ, offsetQ), 200, "")
                EXCEPT !.transactions = getTransactions(transactions, limit, offset),
                       !.page = <<[total |-> getTransactionCount(transactions),
                                   limit |-> limit, offset |-> offset]>>]

\* a listing that takes the records it returns out of the store
getPageDrains(s, limitQ, offsetQ) ==
    /\ last = Idle
    /\ last' = getPageResponse(s, limitQ, offsetQ)
    /\ transactions' = SelectSeq(transactions,
           LAMBDA t : \A i \in 1..Len(last'.transactions) : last'.transactions[i] # t)
    /\ UNCHANGED <<admins, adminsByUsername, seeded, session, now>>

getPage(s, limitQ, offsetQ) ==
    /\ last = Idle
    /\ last' = getPageResponse(s, limitQ, offsetQ)
    /\ UNCHANGED <<admins, adminsByUsername, transactions, seeded, session, now>>

(***************************************************************************)
(* GET /api/transactions/user/:uid                                         *)
(***************************************************************************)
getByUIDReq(uid) == [kind |-> "getByUID", uid |-> uid]

getByUIDResponse(s, uid) ==
    IF ~requireAuth(s) THEN Unauthenticated("getByUID", s, getByUIDReq(uid))
    ELSE [Response("getByUID", s, getByUIDReq(uid), 200, "")
            EXCEPT !.transactions = getTransactionsByUID(transactions, uid)]

getByUID(s, uid) ==
    /\ last = Idle
    /\ last' = getByUIDResponse(s, uid)
    /\ UNCHANGED <<admins, adminsByUsername, transactions, seeded, session, now>>

(***************************************************************************)
(* The clock                                                               *)
(***************************************************************************)
tick ==
    /\ last = Idle
    /\ now < MaxTime
    /\ now' = now + 1
    /\ UNCHANGED <<admins, adminsByUsername, transactions, seeded, session, last>>

(***************************************************************************)
(* res.json(...): the response leaves the server                           *)
(***************************************************************************)
respond ==
    /\ last # Idle
    /\ last' = Idle
    /\ UNCHANGED <<admins, adminsByUsername, transactions, seeded, session, now>>

(***************************************************************************)
(* Requests the model sends                                                *)
(***************************************************************************)
UIDs == {"7", "42"}
UIDValues == {Str("")} \cup {Str(u) : u \in UIDs}
UcValues == {Undef, Num(-1, FALSE), Num(0, FALSE), Num(1, FALSE)}
CoinsValues == {Undef, Num(0, FALSE), Num(1, FALSE)}
QueryValues == {Undef} \cup {Num(i, FALSE) : i \in 0..MaxTx}
LoginBodies == [username : {Str("")} \cup {Str(u) : u \in Usernames},
                password : {Str("")} \cup {Str(p) : p \in Passwords}]
DistributeBodies == [userUID : UIDValues, ucAmount : UcValues, coinsAmount : CoinsValues]

Routes ==
    \/ \E s \in Sessions, body \in LoginBodies : login(s, body)
    \/ \E s \in Sessions : logout(s)
    \/ \E s \in Sessions : me(s)
    \/ \E s \in Sessions, body \in DistributeBodies : distribute(s, body)
    \/ \E s \in Sessions, limitQ \in QueryValues, offsetQ \in QueryValues :
          getPage(s, limitQ, offsetQ)
    \/ \E s \in Sessions, uid \in UIDs : getByUID(s, uid)

(***************************************************************************)
(* The server: the store seeds itself, the routes serve requests           *)
(***************************************************************************)
Next ==
    \/ initializeDefaultAdmin
    \/ Routes
    \/ tick
    \/ respond

Spec == Init /\ [][Next]_vars

(***************************************************************************)
(* The store as a component: createAdmin is part of IStorage but no route  *)
(* calls it.  Here its callers run next to the seeding and to the routes,  *)
(* the routes with one request of each kind.                               *)
(***************************************************************************)
StorageLoginBodies == [username : {Str(u) : u \in Usernames},
                       password : {Str(p) : p \in Passwords}]
StorageDistributeBodies ==
    {[userUID |-> Str("7"), ucAmount |-> Num(1, FALSE), coinsAmount |-> Undef],
     [userUID |-> Str("7"), ucAmount |-> Num(0, FALSE), coinsAmount |-> Undef]}

StorageRoutes ==
    \/ \E s \in Sessions, body \in StorageLoginBodies : login(s, body)
    \/ \E s \in Sessions : logout(s)
    \/ \E s \in Sessions : me(s)
    \/ \E s \in Sessions, body \in StorageDistributeBodies : distribute(s, body)
    \/ \E s \in Sessions : getPage(s, Undef, Undef)
    \/ \E s \in Sessions : getByUID(s, "7")

NextStorage ==
    \/ initializeDefaultAdmin
    \/ \E u \in Usernames, p \in Passwords : createAdmin(u, p)
    \/ StorageRoutes
    \/ respond

SpecStorage == Init /\ [][NextStorage]_vars

(***************************************************************************)
(* validateAdminCredentials as a function of the administrator table: the  *)
(* table is drawn from every table over Usernames, inactive administrators *)
(* included, and the method and the login route are applied to it.         *)
(***************************************************************************)
AdminIdOf(u) == IF u = "admin" THEN 1 ELSE 2

AdminRecords(u) ==
    {[newAdmin(AdminIdOf(u), u, p, salt) EXCEPT !.isActive = active] :
        p \in Passwords, salt \in Salts, active \in BOOLEAN}

AdminTables ==
    UNION {{f \in [D -> UNION {AdminRecords(u) : u \in D}] :
               \A u \in D : f[u].username = u} : D \in SUBSET Usernames}

ById(table) ==
    [i \in {table[u].id : u \in DOMAIN table} |->
        table[CHOOSE u \in DOMAIN table : table[u].id = i]]

InitCredentials ==
    /\ adminsByUsername \in AdminTables
    /\ admins = ById(adminsByUsername)
    /\ transactions = <<>>
    /\ seeded = TRUE
    /\ session = [s \in Sessions |-> EmptySession]
    /\ now = 0
    /\ last = Idle

credentialsReq(username, password) ==
    [kind |-> "validateAdminCredentials", username |-> Str(username),
     password |-> Str(password)]

\* a caller of storage.validateAdminCredentials(username, password)
callValidateAdminCredentials(username, password) ==
    /\ last = Idle
    /\ last' = [Response("validateAdminCredentials", "",
                         credentialsReq(username, password), 0, "")
                  EXCEPT !.admin = validateAdminCredentials(adminsByUsername,
                                                            username, password)]
    /\ UNCHANGED <<admins, adminsByUsername, transactions, seeded, session, now>>

NextCredentials ==
    \/ \E u \in Usernames, p \in Passwords : callValidateAdminCredentials(u, p)
    \/ \E s \in Sessions, body \in StorageLoginBodies : login(s, body)
    \/ respond

SpecCredentials == InitCredentials /\ [][NextCredentials]_vars

(***************************************************************************)
(* The History page reads the ledger page by page: page currentPage is the *)
(* request limit=itemsPerPage, offset=(currentPage - 1) * itemsPerPage,    *)
(* and there are ceil(total / itemsPerPage) pages.  The reader here keeps  *)
(* the rows of the pages read so far, and no distribution is written      *)
(* while a reading is under way.                                           *)
(***************************************************************************)
ItemsPerPage == 1..MaxTx

historyReq(itemsPerPage, currentPage) ==
    [kind |-> "history", itemsPerPage |-> itemsPerPage, currentPage |-> currentPage]

\* Math.ceil(total / itemsPerPage)
totalPages(total, itemsPerPage) == (total + itemsPerPage - 1) \div itemsPerPage

historyFetch(s, itemsPerPage, currentPage) ==
    getPageResponse(s, Num(itemsPerPage, FALSE),
                    Num((currentPage - 1) * itemsPerPage, FALSE))

historyOpen(s, itemsPerPage) ==
    /\ last = Idle
    /\ requireAuth(s)
    /\ LET r == historyFetch(s, itemsPerPage, 1)
       IN  last' = [Response("history", s, historyReq(itemsPerPage, 1), r.status, "")
                      EXCEPT !.transactions = r.transactions, !.page = r.page]
    /\ UNCHANGED <<admins, adminsByUsername, transactions, seeded, session, now>>

historyNextPage ==
    /\ last.op = "history"
    /\ last.req.currentPage < totalPages(last.page[1].total, last.req.itemsPerPage)
    /\ LET r == historyFetch(last.sess, last.req.itemsPerPage, last.req.currentPage + 1)
       IN  last' = [last EXCEPT !.req.currentPage = @ + 1,
                                !.transactions = @ \o r.transactions,
                                !.page = r.page]
    /\ UNCHANGED <<admins, adminsByUsername, transactions, seeded, session, now>>

NextHistory ==
    \/ initializeDefaultAdmin
    \/ \E s \in Sessions, body \in StorageLoginBodies : login(s, body)
    \/ \E s \in Sessions, body \in StorageDistributeBodies : distribute(s, body)
    \/ \E s \in Sessions, itemsPerPage \in ItemsPerPage : historyOpen(s, itemsPerPage)
    \/ historyNextPage
    \/ tick
    \/ respond

SpecHistory == Init /\ [][NextHistory]_vars

(***************************************************************************)
(* POST /api/transactions with amounts that are not whole numbers: JSON    *)
(* numbers such as 0.5, 1.5 and -0.5 next to the whole ones.               *)
(***************************************************************************)
FractionalUcValues ==
    {Undef, Num(-1, FALSE), Num(-1, TRUE), Num(0, FALSE), Num(0, TRUE),
     Num(1, FALSE), Num(1, TRUE)}
FractionalCoinsValues == {Undef, Num(-1, FALSE), Num(0, TRUE), Num(1, FALSE)}
FractionalBodies ==
    [userUID : {Str(""), Str("7")}, ucAmount : FractionalUcValues,
     coinsAmount : FractionalCoinsValues]
DefaultAdminBody == [username |-> Str("admin"), password |-> Str("admin123")]

NextFractional ==
    \/ initializeDefaultAdmin
    \/ \E s \in Sessions : login(s, DefaultAdminBody)
    \/ \E s \in Sessions, body \in FractionalBodies : distribute(s, body)
    \/ respond

SpecFractional == Init /\ [][NextFractional]_vars

(***************************************************************************)
(* The session middleware over a day and more.  The options are            *)
(* cookie.maxAge 24 hours, resave false, saveUninitialized false, rolling  *)
(* unset, and the store is express-session's MemoryStore.  A session is    *)
(* stored when a login writes to it, with expires = now + maxAge; the      *)
(* store's get drops a session whose expires <= now; at the end of every   *)
(* request that found its session the middleware touches it, which resets  *)
(* expires to now + maxAge in the store.  Without rolling the Set-Cookie   *)
(* header is only sent when the session is written, so the store's expires *)
(* is the only deadline the server itself enforces.                        *)
(*                                                                         *)
(* Here the clock counts half days, and issuedAt remembers when the login  *)
(* that established the session happened; the program keeps no such field. *)
(***************************************************************************)
HalfDaysMax == 3
CookieMaxAge == 2

EmptyStoredSession ==
    [adminId |-> NoAdminId, adminUsername |-> NoUsername, expires |-> 0, issuedAt |-> 0]

\* MemoryStore getSession: an expired session is deleted and not returned
storeGet(s) == IF session[s].expires <= now THEN EmptyStoredSession ELSE session[s]

\* Session.touch and MemoryStore.touch at the end of a request
storeTouch(sess) ==
    IF sess.adminId = NoAdminId THEN EmptyStoredSession
    ELSE [sess EXCEPT !.expires = now + CookieMaxAge]

InitSessionStore ==
    /\ admins = EmptyMap
    /\ adminsByUsername = EmptyMap
    /\ transactions = <<>>
    /\ seeded = FALSE
    /\ session = [s \in Sessions |-> EmptyStoredSession]
    /\ now = 0
    /\ last = Idle

sessionLogin(s) ==
    /\ last = Idle
    /\ LET adminOpt == validateAdminCredentials(adminsByUsername, "admin", "admin123")
       IN  /\ last' = loginResponse(s, DefaultAdminBody, adminOpt)
           /\ session' = [session EXCEPT ![s] =
                 IF adminOpt = <<>> THEN storeTouch(storeGet(s))
                 ELSE [adminId |-> adminOpt[1].id, adminUsername |-> adminOpt[1].username,
                       expires |-> now + CookieMaxAge, issuedAt |-> now]]
    /\ UNCHANGED <<admins, adminsByUsername, transactions, seeded, now>>

sessionMe(s) ==
    /\ last = Idle
    /\ IF storeGet(s).adminId = NoAdminId
       THEN last' = Unauthenticated("me", s, NoReq)
       ELSE last' = meResponse(s)
    /\ session' = [session EXCEPT ![s] = storeTouch(storeGet(s))]
    /\ UNCHANGED <<admins, adminsByUsername, transactions, seeded, now>>

sessionLogout(s) ==
    /\ last = Idle
    /\ session' = [session EXCEPT ![s] = EmptyStoredSession]
    /\ last' = Response("logout", s, NoReq, 200, "Logout successful")
    /\ UNCHANGED <<admins, adminsByUsername, transactions, seeded, now>>

halfDayPasses ==
    /\ last = Idle
    /\ now < HalfDaysMax
    /\ now' = now + 1
    /\ UNCHANGED <<admins, adminsByUsername, transactions, seeded, session, last>>

NextSessionStore ==
    \/ initializeDefaultAdmin
    \/ \E s \in Sessions : sessionLogin(s)
    \/ \E s \in Sessions : sessionMe(s)
    \/ \E s \in Sessions : sessionLogout(s)
    \/ halfDayPasses
    \/ respond

SpecSessionStore == InitSessionStore /\ [][NextSessionStore]_vars

(***************************************************************************)
(* A client asks the same listing twice: the query of a page is fetched    *)
(* again with the same limit and offset, or the same uid, before anything  *)
(* else is sent.                                                           *)
(***************************************************************************)
RefetchDistributeBodies ==
    {[userUID |-> Str("7"), ucAmount |-> Num(1, FALSE), coinsAmount |-> Undef],
     [userUID |-> Str("42"), ucAmount |-> Undef, coinsAmount |-> Num(1, FALSE)]}

refetchPage ==
    /\ last.op = "getPage"
    /\ last' = [getPageResponse(last.sess, last.req.limit, last.req.offset)
                  EXCEPT !.op = "refetchPage"]
    /\ UNCHANGED <<admins, adminsByUsername, transactions, seeded, session, now>>

refetchByUID ==
    /\ last.op = "getByUID"
    /\ last' = [getByUIDResponse(last.sess, last.req.uid) EXCEPT !.op = "refetchByUID"]
    /\ UNCHANGED <<admins, adminsByUsername, transactions, seeded, session, now>>

NextRefetch ==
    \/ initializeDefaultAdmin
    \/ \E s \in Sessions : login(s, DefaultAdminBody)
    \/ \E s \in Sessions, body \in RefetchDistributeBodies : distribute(s, body)
    \/ \E s \in Sessions, limitQ \in QueryValues, offsetQ \in QueryValues :
          getPage(s, limitQ, offsetQ)
    \/ \E s \in Sessions, uid \in UIDs : getByUID(s, uid)
    \/ refetchPage
    \/ refetchByUID
    \/ tick
    \/ respond

SpecRefetch == Init /\ [][NextRefetch]_vars

(***************************************************************************)
(* Properties                                                              *)
(***************************************************************************)
Anonymous(s) == session[s].adminId = NoAdminId
GatedOps == {"distribute", "getPage", "getByUID"}
NoData(r) == r.transaction = <<>> /\ r.transactions = <<>> /\ r.page = <<>>

\* what the claims call a zero, a non-negative and a positive amount of a request
ReqZero(v) == v.t = "undefined" \/ (v.t = "number" /\ v.int = 0 /\ ~v.half)
ReqNonNegative(v) == v.t = "undefined" \/ (v.t = "number" /\ v.int >= 0)
ReqPositive(v) == v.t = "number" /\ (v.int > 0 \/ (v.int = 0 /\ v.half))
ReqInvalid(req) ==
    \/ req.userUID.t # "string" \/ req.userUID.s = ""
    \/ ~ReqNonNegative(req.ucAmount) \/ ~ReqNonNegative(req.coinsAmount)
    \/ (ReqZero(req.ucAmount) /\ ReqZero(req.coinsAmount))
IdsUnique(txs) == \A i, j \in 1..Len(txs) : txs[i].id = txs[j].id => i = j

\* C1: a call to distribute, getPage or getByUID on a session with no bound
\* administrator id answers 401, returns no transaction data and leaves the
\* transaction store as it was, whatever the payload (so also an invalid one).
C1_AuthGate ==
    [][\A s \in Sessions :
         (Anonymous(s) /\ last'.sess = s /\ last'.op \in GatedOps)
            => /\ last'.status = 401
               /\ NoData(last')
               /\ transactions' = transactions]_vars

C1_Witness ==
    /\ last.op = "distribute" /\ last.status = 401
    /\ Anonymous(last.sess)
    /\ ReqInvalid(last.req)
    /\ \E s \in Sessions : ~Anonymous(s)
    /\ Len(transactions) > 0

\* C2: an authenticated distribute with a non-empty uid, non-negative amounts and
\* one amount positive succeeds, the id of the record it returns is the id of no
\* record stored before the call, and ids stay unique across the store.
C2_DistributeFreshId ==
    [][\A s \in Sessions :
         (~Anonymous(s) /\ last'.sess = s /\ last'.op = "distribute"
              /\ ~ReqInvalid(last'.req))
            => /\ last'.status = 200
               /\ Len(last'.transaction) = 1
               /\ last'.transaction[1].id \notin TxIds(transactions)
               /\ Len(transactions') = Len(transactions) + 1
               /\ transactions'[Len(transactions')] = last'.transaction[1]
               /\ IdsUnique(transactions')]_vars

C2_Witness ==
    /\ last.op = "distribute" /\ last.status = 200
    /\ Len(transactions) = 2
    /\ transactions[2] = last.transaction[1]
    /\ transactions[1].id # transactions[2].id

\* C3: an authenticated distribute whose two amounts are both zero (absent
\* counting as zero) answers 400 and the number of stored transactions is the
\* same after the call as before it.
C3_BothZeroRejected ==
    [][\A s \in Sessions :
         (~Anonymous(s) /\ last'.sess = s /\ last'.op = "distribute"
              /\ ReqZero(last'.req.ucAmount) /\ ReqZero(last'.req.coinsAmount))
            => /\ last'.status = 400
               /\ last'.transaction = <<>>
               /\ Len(transactions') = Len(transactions)]_vars

C3_Witness ==
    /\ last.op = "distribute" /\ last.status = 400
    /\ ~Anonymous(last.sess)
    /\ last.req.userUID = Str("7")
    /\ last.req.ucAmount = Num(0, FALSE) /\ last.req.coinsAmount = Num(0, FALSE)
    /\ "At least one currency amount must be greater than 0" \in last.errors
    /\ Len(transactions) = 1

\* C4: every stored transaction has ucAmount > 0 or coinsAmount > 0.
C4_LedgerInvariant ==
    \A i \in 1..Len(transactions) :
        ReqPositive(transactions[i].ucAmount) \/ ReqPositive(transactions[i].coinsAmount)

C4_Witness ==
    /\ Len(transactions) = 2
    /\ ReqZero(transactions[1].ucAmount) /\ ReqPositive(transactions[1].coinsAmount)
    /\ ReqPositive(transactions[2].ucAmount) /\ ReqZero(transactions[2].coinsAmount)

\* C5: a login that answers 200 for username u leaves the session bound to the
\* id and the username of the administrator stored under u, which are the ones
\* the response reports, and gated operations on a bound session are admitted
\* (none answers 401).
C5_LoginBindsIdentity ==
    [][\A s \in Sessions :
         /\ (last'.sess = s /\ last'.op = "login" /\ last'.status = 200)
              => /\ last'.req.username.s \in DOMAIN adminsByUsername
                 /\ session'[s].adminId = adminsByUsername[last'.req.username.s].id
                 /\ session'[s].adminUsername = last'.req.username.s
                 /\ adminsByUsername[last'.req.username.s].username = last'.req.username.s
                 /\ last'.admin = <<[id |-> session'[s].adminId,
                                     username |-> session'[s].adminUsername]>>
                 /\ session'[s].adminId # NoAdminId
         /\ (~Anonymous(s) /\ last'.sess = s /\ last'.op \in GatedOps \cup {"me"})
              => last'.status # 401]_vars

C5_Witness ==
    /\ last.op = "login" /\ last.status = 200 /\ last.sess = "s1"
    /\ session["s1"].adminUsername = "bob"
    /\ session["s2"].adminUsername = "admin"
    /\ session["s1"].adminId # session["s2"].adminId

\* C6: logout leaves the session without a bound administrator; a session
\* without one gets one only by a login on that session that answers 200; and
\* until then distribute, getPage, getByUID and /auth/me on it answer 401.
C6_LogoutRevokes ==
    [][\A s \in Sessions :
         /\ (last'.sess = s /\ last'.op = "logout") => session'[s].adminId = NoAdminId
         /\ (Anonymous(s) /\ session'[s].adminId # NoAdminId)
              => (last'.sess = s /\ last'.op = "login" /\ last'.status = 200)
         /\ (Anonymous(s) /\ last'.sess = s /\ last'.op \in GatedOps \cup {"me"})
              => (last'.status = 401 /\ NoData(last') /\ last'.admin = <<>>)]_vars

\* a record exists, so a session was bound; none is bound now, so it logged out
C6_Witness ==
    /\ Len(transactions) > 0
    /\ \A s \in Sessions : Anonymous(s)
    /\ last.op = "me" /\ last.status = 401

\* the cases of a credentials check, read off the table
Known(u) == u \in DOMAIN adminsByUsername
PasswordMatches(u, p) ==
    adminsByUsername[u].password = BcryptHash(p, adminsByUsername[u].password.salt)

\* C7: validateAdminCredentials returns none for an unknown username, for a
\* known username with a password that does not match, and for an inactive
\* administrator whose password matches; it returns the stored administrator
\* when the username is known, the administrator active and the password matches.
C7_VerifyCredentials ==
    last.op = "validateAdminCredentials" =>
        LET u == last.req.username.s
            p == last.req.password.s
        IN  /\ ~Known(u) => last.admin = <<>>
            /\ (Known(u) /\ ~PasswordMatches(u, p)) => last.admin = <<>>
            /\ (Known(u) /\ PasswordMatches(u, p) /\ ~adminsByUsername[u].isActive)
                  => last.admin = <<>>
            /\ (Known(u) /\ PasswordMatches(u, p) /\ adminsByUsername[u].isActive)
                  => last.admin = <<adminsByUsername[u]>>

C7_Witness ==
    /\ last.op = "validateAdminCredentials"
    /\ last.req.username.s = "bob" /\ Known("bob")
    /\ PasswordMatches("bob", last.req.password.s)
    /\ ~adminsByUsername["bob"].isActive
    /\ last.admin = <<>>
    /\ Known("admin") /\ adminsByUsername["admin"].isActive

\* C8: a credentials check that fails because the username is unknown and one
\* that fails because the password of a known, active administrator is wrong
\* give the same result: validateAdminCredentials returns none in both, and
\* the login route answers 401 "Invalid credentials" in both, with nothing
\* else in the response.
C8_FailureIndistinguishable ==
    (last.op \in {"validateAdminCredentials", "login"}
        /\ last.req.username.t = "string" /\ last.req.username.s # ""
        /\ last.req.password.t = "string" /\ last.req.password.s # ""
        /\ \/ ~Known(last.req.username.s)
           \/ /\ adminsByUsername[last.req.username.s].isActive
              /\ ~PasswordMatches(last.req.username.s, last.req.password.s))
      => /\ last.admin = <<>>
         /\ last.errors = {}
         /\ last.op = "login" => (last.status = 401 /\ last.message = "Invalid credentials")

C8_Witness ==
    /\ last.op = "login" /\ last.status = 401
    /\ last.req.username.s = "bob" /\ ~Known("bob")
    /\ Known("admin") /\ adminsByUsername["admin"].isActive
    /\ ~PasswordMatches("admin", last.req.password.s)

\* C9 (as claimed): createAdmin with a username that is already stored fails
\* and leaves both administrator maps as they were; with a new username it
\* stores a new active administrator.
C9_DuplicateUsernameRejected ==
    [][last'.op = "createAdmin" =>
         IF last'.req.username \in DOMAIN adminsByUsername
         THEN /\ last'.admin = <<>>
              /\ admins' = admins
              /\ adminsByUsername' = adminsByUsername
         ELSE /\ Len(last'.admin) = 1
              /\ last'.admin[1].isActive
              /\ last'.admin[1].username = last'.req.username
              /\ last'.admin[1].id \notin DOMAIN admins
              /\ admins' = MapSet(admins, last'.admin[1].id, last'.admin[1])]_vars

\* C10 (as claimed): no two stored administrator records have the same username.
C10_UsernameUnique ==
    \A i, j \in DOMAIN admins : admins[i].username = admins[j].username => i = j

\* C11 (as claimed): a login with admin / admin123 answers 200 with the default
\* administrator at any moment after the store is constructed.
C11_DefaultAdminLogin ==
    [][(last'.op = "login" /\ last'.req.username = Str("admin")
            /\ last'.req.password = Str("admin123"))
         => /\ last'.status = 200
            /\ Len(last'.admin) = 1
            /\ last'.admin[1].username = "admin"]_vars

Descending(txs) ==
    \A i \in 1..(Len(txs) - 1) : txs[i].createdAt >= txs[i + 1].createdAt
Elements(seq) == {seq[i] : i \in 1..Len(seq)}

\* C13: in every page getTransactions returns, each record's createdAt is
\* greater than or equal to the createdAt of the record after it.
C13_PageDescending ==
    (last.op = "getPage" /\ last.status = 200) => Descending(last.transactions)

C13_Witness ==
    /\ last.op = "getPage" /\ last.status = 200
    /\ Len(transactions) = 2 /\ Len(last.transactions) = 2
    /\ transactions[1].createdAt < transactions[2].createdAt
    /\ last.transactions[1] = transactions[2]
    /\ last.transactions[2] = transactions[1]

\* C14 (as claimed): a page with offset 0 and limit >= 1 read after a distribute
\* has the record created last as its first element, and total >= 1, whatever
\* the store held before, records of the same clock reading included.
C14_NewestFirst ==
    (last.op = "getPage" /\ last.status = 200 /\ Len(transactions) >= 1
        /\ last.page[1].offset = 0 /\ last.page[1].limit >= 1)
      => /\ Len(last.transactions) >= 1
         /\ last.transactions[1] = transactions[Len(transactions)]
         /\ last.page[1].total >= 1

\* C14 (amended): the same, provided every other stored record has a createdAt
\* strictly smaller than that of the record created last.
C14_NewestFirstStrict ==
    (last.op = "getPage" /\ last.status = 200 /\ Len(transactions) >= 1
        /\ last.page[1].offset = 0 /\ last.page[1].limit >= 1
        /\ \A i \in 1..(Len(transactions) - 1) :
              transactions[i].createdAt < transactions[Len(transactions)].createdAt)
      => /\ Len(last.transactions) >= 1
         /\ last.transactions[1] = transactions[Len(transactions)]
         /\ last.page[1].total >= 1

C14_Witness ==
    /\ last.op = "getPage" /\ last.status = 200
    /\ last.page[1].offset = 0 /\ last.page[1].limit = 1
    /\ Len(transactions) = 2
    /\ transactions[1].createdAt < transactions[2].createdAt
    /\ last.transactions = <<transactions[2]>>

\* C15: getTransactionsByUID(uid) returns every stored transaction whose userUID
\* is uid, each once, no other record, in descending order of createdAt.
C15_ListByUID ==
    (last.op = "getByUID" /\ last.status = 200)
      => /\ Elements(last.transactions)
              = {tx \in Elements(transactions) : tx.userUID = last.req.uid}
         /\ Len(last.transactions) = Cardinality(Elements(last.transactions))
         /\ Descending(last.transactions)

C15_Witness ==
    /\ last.op = "getByUID" /\ last.status = 200 /\ last.req.uid = "42"
    /\ Len(transactions) = 2 /\ Len(last.transactions) = 1
    /\ transactions[1].userUID = "42" /\ transactions[2].userUID = "7"

\* C12: reading the ledger page by page with any page size >= 1, offsets 0,
\* limit, 2*limit, ... below the count and no write in between, and putting the
\* pages one after the other gives exactly getTransactions(count, 0): every
\* stored record once, none left out.
C12_PaginationIdentity ==
    (last.op = "history"
        /\ last.req.currentPage >= totalPages(Len(transactions), last.req.itemsPerPage))
      => /\ last.transactions = getTransactions(transactions, Len(transactions), 0)
         /\ Len(last.transactions) = Len(transactions)
         /\ Elements(last.transactions) = Elements(transactions)

C12_Witness ==
    /\ last.op = "history"
    /\ last.req.itemsPerPage = 1 /\ last.req.currentPage = 2
    /\ Len(transactions) = 2 /\ Len(last.transactions) = 2
    /\ transactions[1].createdAt < transactions[2].createdAt

ReadOps == {"getPage", "getByUID"}
Distributed(r) == r.op = "distribute" /\ r.status = 200

\* C16: the ledger is append-only.  Every step keeps each stored record in its
\* place with all its fields; a successful distribute adds exactly one record
\* and no other step changes the ledger; every record a read returns is a
\* stored record.
C16_AppendOnly ==
    [][/\ SubSeq(transactions', 1, Len(transactions)) = transactions
       /\ Len(transactions') =
              Len(transactions) + (IF Distributed(last') THEN 1 ELSE 0)
       /\ last'.op \in ReadOps
            => Elements(last'.transactions) \subseteq Elements(transactions')]_vars

C16_Witness ==
    /\ Distributed(last) /\ Len(transactions) = 2
    /\ transactions[1].userUID = transactions[2].userUID

ReqValue(v) == IF v.t = "undefined" THEN Num(0, FALSE) ELSE v

\* C17: the record a successful distribute creates carries the adminId and the
\* adminUsername of the session that made the request, the userUID and the
\* amounts of the request (0 for an absent amount) and status "completed"; a
\* later read returns the stored record, adminUsername included, as stored.
C17_StampedIdentity ==
    [][/\ \A s \in Sessions :
            (Distributed(last') /\ last'.sess = s)
              => LET tx == transactions'[Len(transactions')]
                 IN  /\ tx.adminId = session[s].adminId
                     /\ tx.adminUsername = session[s].adminUsername
                     /\ tx.userUID = last'.req.userUID.s
                     /\ tx.ucAmount = ReqValue(last'.req.ucAmount)
                     /\ tx.coinsAmount = ReqValue(last'.req.coinsAmount)
                     /\ tx.status = "completed"
                     /\ last'.transaction = <<tx>>
       /\ last'.op \in ReadOps
            => \A i \in 1..Len(last'.transactions) :
                  \E j \in 1..Len(transactions) :
                      /\ last'.transactions[i] = transactions[j]
                      /\ last'.transactions[i].adminUsername
                            = transactions[j].adminUsername]_vars

C17_Witness ==
    /\ Distributed(last) /\ last.sess = "s2"
    /\ session["s1"].adminUsername = "admin" /\ session["s2"].adminUsername = "bob"
    /\ session["s1"].adminId # session["s2"].adminId
    /\ last.transaction[1].adminUsername = "bob"
    /\ last.transaction[1].adminId = session["s2"].adminId

\* C18: a successful distribute changes nothing but the ledger: the
\* administrator tables, balances included, and the session bindings are the
\* same after it as before.
C18_DistributeFrame ==
    [][Distributed(last')
         => /\ admins' = admins
            /\ adminsByUsername' = adminsByUsername
            /\ session' = session
            /\ seeded' = seeded]_vars

C18_Witness ==
    /\ Distributed(last)
    /\ \A s \in Sessions : session[s].adminId \in DOMAIN admins
    /\ \A id \in DOMAIN admins : admins[id].balance = DefaultBalance

ReqNonNegativeInteger(v) ==
    v.t = "undefined" \/ (v.t = "number" /\ v.int >= 0 /\ ~v.half)

\* C19 (as claimed): an authenticated distribute whose userUID is the empty
\* string, or whose ucAmount or coinsAmount is present and not a non-negative
\* integer, is answered 400 and stores nothing; for the empty userUID the
\* errors name userUID.
C19_RejectsInvalidInput ==
    [][\A s \in Sessions :
          (/\ last'.op = "distribute" /\ last'.sess = s /\ ~Anonymous(s)
           /\ \/ last'.req.userUID = Str("")
              \/ ~ReqNonNegativeInteger(last'.req.ucAmount)
              \/ ~ReqNonNegativeInteger(last'.req.coinsAmount))
            => /\ last'.status = 400
               /\ transactions' = transactions
               /\ last'.req.userUID = Str("") => "userUID" \in last'.errors]_vars

\* C20 (as claimed): a request on a session made more than 24 hours after the
\* login that established it is answered as anonymous (401), however many
\* requests were made on the session in between.
C20_AbsoluteExpiry ==
    \A s \in Sessions :
        (last.op = "me" /\ last.sess = s /\ now > session[s].issuedAt + CookieMaxAge)
          => last.status = 401

FirstReadOps == {"getPage", "getByUID"}
RefetchOps == {"refetchPage", "refetchByUID"}

\* C22: reads are pure and repeatable.  A listing, by page or by uid, and the
\* count it reports leave the store as it was, and the same listing asked again
\* with the same arguments and no write in between gives the same status, the
\* same records in the same order and the same total.
C22_ReadsRepeatable ==
    [][/\ last'.op \in FirstReadOps \cup RefetchOps
            => <<admins, adminsByUsername, transactions, seeded, session>>'
                  = <<admins, adminsByUsername, transactions, seeded, session>>
       /\ (last.op \in FirstReadOps /\ last'.op \in RefetchOps)
            => /\ last'.status = last.status
               /\ last'.transactions = last.transactions
               /\ last'.page = last.page]_vars

C22_Witness ==
    /\ last.op = "refetchPage" /\ last.status = 200
    /\ Len(last.transactions) = 2
    /\ last.transactions[1].createdAt = last.transactions[2].createdAt
    /\ last.transactions[1].userUID # last.transactions[2].userUID
    /\ last.page[1].total = 2


\* C23 (as claimed): the two administrator indexes agree in every reachable
\* state: a record is stored under its id exactly when the username index
\* resolves its username to that same record.
C23_IndexesConsistent ==
    /\ \A id \in DOMAIN admins :
          /\ admins[id].username \in DOMAIN adminsByUsername
          /\ adminsByUsername[admins[id].username] = admins[id]
    /\ \A u \in DOMAIN adminsByUsername :
          /\ adminsByUsername[u].id \in DOMAIN admins
          /\ admins[adminsByUsername[u].id] = adminsByUsername[u]

\* C24: in every reachable state the adminId of every authenticated session
\* and of every stored transaction is the id of a stored administrator, and
\* GET /api/auth/me on an authenticated session does not answer 404.
C24_ReferentialIntegrity ==
    /\ \A s \in Sessions :
          session[s].adminId # NoAdminId => session[s].adminId \in DOMAIN admins
    /\ \A i \in 1..Len(transactions) : transactions[i].adminId \in DOMAIN admins
    /\ \A s \in Sessions :
          (last.op = "me" /\ last.sess = s /\ session[s].adminId # NoAdminId)
            => (last.status = 200 /\ last.admin[1].id = session[s].adminId)

C24_Witness ==
    /\ last.op = "me" /\ last.status = 200 /\ last.sess = "s2"
    /\ session["s1"].adminId # NoAdminId /\ session["s2"].adminId # NoAdminId
    /\ session["s1"].adminId # session["s2"].adminId
    /\ Len(transactions) = 2
    /\ transactions[1].adminId # transactions[2].adminId


QueryOr(v, dflt) == IF v.t = "undefined" THEN dflt ELSE v.int
QueryNonNegativeInteger(v) ==
    v.t = "undefined" \/ (v.t = "number" /\ v.int >= 0 /\ ~v.half)

\* C25 (as claimed): an authenticated getPage whose limit and offset are
\* non-negative integers (limit 0 included) or absent answers with that limit
\* and offset (50 and 0 when absent), total equal to the number of stored
\* records, and min(limit, max(0, total - offset)) transactions.
C25_PageSize ==
    \A s \in Sessions :
        (/\ last.op = "getPage" /\ last.sess = s /\ ~Anonymous(s)
         /\ QueryNonNegativeInteger(last.req.limit)
         /\ QueryNonNegativeInteger(last.req.offset))
          => /\ last.status = 200
             /\ last.page[1].limit = QueryOr(last.req.limit, 50)
             /\ last.page[1].offset = QueryOr(last.req.offset, 0)
             /\ last.page[1].total = Len(transactions)
             /\ Len(last.transactions) =
                    Min(last.page[1].limit,
                        Max(0, last.page[1].total - last.page[1].offset))

====
